---- MODULE Spec2Model ----
(***************************************************************************)
(* The realtime subscription manager of the GRVT client                    *)
(* (WebSocketSubscriptionManager), the message router it listens on        *)
(* (GrvtEventTarget) and the socket both are bound to.                     *)
(*                                                                         *)
(* One step of the model is one task of the JavaScript event loop: a call  *)
(* made by the user (subscribe, a handle's unsubscribe, the resubscribe    *)
(* setter), one socket event (open, error, close), one inbound frame or    *)
(* one timer, each followed by the promise reactions (microtasks) it       *)
(* schedules: the finally/catch handlers chained in subscribe and          *)
(* _handleOpen and the continuation of every subscribe() call awaiting     *)
(* the settled promise.                                                    *)
(***************************************************************************)
EXTENDS Integers, Sequences, FiniteSets, TLC

(* ------------------------------ bounds -------------------------------- *)

\* correlation ids the manager may issue in one run
MaxRequestId == 3
\* subscribe() calls made in one run
MaxCalls == 3
\* times the socket connects again after it closed
MaxReconnects == 1
\* ready() calls made in one run of ReadySpec
MaxReadyCalls == 3
\* close() calls made in one run of CloseSpec
MaxCloseCalls == 2
\* ping frames sent in one run of CloseSpec
MaxPings == 2
\* request() calls made in one run of AuthSpec
MaxRequests == 3
\* the last instant (ms) the clock reaches
MaxNow == 1
\* request() calls made in one run of HttpSpec
HttpMaxRequests == 2
\* subscribe() calls made in one run of RouterSpec
RouterMaxCalls == 1
\* subscribe() calls made in one run of StreamSpec
StreamMaxCalls == 2

(* ------------------------------ inputs -------------------------------- *)

\* Stream names are sequences of dot-separated parts, so that the "v1."
\* prefix can be tested and stripped as the code does.
Streams == { <<"ticker">> }
Feeds == { "BTC@500", "ETH@500" }
\* (stream, feed) pairs the callers subscribe to
Keys == Streams \X Feeds
\* Stream names a caller passes with the wire prefix already on them
PrefixedStreams == { <<"v1", "ticker">> }
\* Every key the subscription index can hold
AllKeys == (Streams \cup PrefixedStreams) \X Feeds
\* listener callback references
Listeners == { "L1", "L2" }
\* the AbortSignals passed to ready(); NoSignal stands for a call without one
Signals == { "S1", "S2" }
NoSignal == "none"

VARIABLES
  readyState,       \* socket.readyState
  reconnects,       \* how often the socket has connected again
  resubscribe,      \* WebSocketSubscriptionManager.resubscribe
  requestId,        \* _requestId
  pendingRequests,  \* _pendingRequests: correlation id -> promise (its resolve/reject pair)
  promises,         \* the promises made by _sendSubscribe, in creation order
  subscriptions,    \* _subscriptions: key -> SubscriptionState
  aborted,          \* failureControllers that have been aborted
  wrappers,         \* the listenerWrapper closures registered so far, in creation order
  attached,         \* the wrappers currently attached to the GrvtEventTarget
  openListeners,    \* the deferred-send "open" listeners on the socket (their frames)
  sent,             \* every frame passed to socket.send, in order
  calls,            \* the subscribe() calls made so far
  delivered,        \* the wrappers invoked by the last task, and the argument they got
  settled,          \* the promises settled by the last task, and what settled them
  inbound,          \* the frame the last task received and the event the router dispatched for it
                    \* (observed in RouterSpec only)
  readyCalls,       \* the ready() calls made so far: signal, promise state, the listeners
                    \* the call registered and those of them still attached
  signalAborted,    \* the AbortSignals that have fired
  closeCalls,       \* the close() calls made so far: signal, promise state, the listeners
                    \* the call registered and those of them still attached
  keepAlive,        \* _keepAliveInterval (interval: a handle is held) and the number of
                    \* interval timers that are running (timers)
  http,             \* HttpTransport configuration: apiKey, timeout, fetchOptions.signal
  cookie,           \* HttpTransport._cookie
  now,              \* Date.now()
  requests          \* the request() calls made so far

vars == << readyState, reconnects, resubscribe, requestId, pendingRequests,
           promises, subscriptions, aborted, wrappers, attached,
           openListeners, sent, calls, delivered, settled, inbound,
           readyCalls, signalAborted, closeCalls, keepAlive,
           http, cookie, now, requests >>

\* The state of the HTTP transport
httpVars == << http, cookie, now, requests >>

\* The state of the WebSocket transport and its subscription manager
wsVars == << readyState, reconnects, resubscribe, requestId, pendingRequests,
             promises, subscriptions, aborted, wrappers, attached,
             openListeners, sent, calls, readyCalls, closeCalls, keepAlive >>

(* --------------------------- stream names ----------------------------- *)

\* _normalizeStreamName: stream.startsWith("v1.") ? stream : `v1.${stream}`
_normalizeStreamName(stream) ==
  IF Len(stream) > 1 /\ stream[1] = "v1" THEN stream ELSE <<"v1">> \o stream

\* A dispatch under the wire name
StripPrefix_keep(stream) == stream

\* msg.stream.replace(/^v1\./, "")
StripPrefix(stream) ==
  IF Len(stream) > 1 /\ stream[1] = "v1" THEN Tail(stream) ELSE stream

(* ------------------------------ frames -------------------------------- *)

\* The frame _sendSubscribe serialises.
SubscribeFrame(id, key) ==
  [ request_id |-> id, stream |-> _normalizeStreamName(key[1]), feed |-> <<key[2]>>,
    method |-> "subscribe", is_full |-> TRUE ]

\* The frame _sendUnsubscribe serialises (it has no is_full field).
UnsubscribeFrame(id, key) ==
  [ request_id |-> id, stream |-> _normalizeStreamName(key[1]), feed |-> <<key[2]>>,
    method |-> "unsubscribe", is_full |-> FALSE ]

(* --------------------------- subscriptions ---------------------------- *)

\* No SubscriptionState under a key (Map.get returns undefined).
NoEntry ==
  [ present |-> FALSE, listeners |-> [ l \in Listeners |-> 0 ], promise |-> 0,
    promiseFinished |-> FALSE, ctrl |-> 0 ]

\* subscription.listeners.size
ListenerCount(sub) == Cardinality({ l \in Listeners : sub.listeners[l] # 0 })

\* The state of the promise stored in SubscriptionState.promise: the promise of
\* _sendSubscribe followed by .finally (subscribe), or by .catch(abort).finally
\* (_handleOpen), which turns a rejection into a fulfilment.
ChainedState(p) ==
  IF promises[p].state = "pending" THEN "pending"
  ELSE IF promises[p].kind = "replay" THEN "fulfilled"
  ELSE promises[p].state

\* No listener was invoked by the task
NoDelivery == [ wids |-> {}, feed |-> "none" ]

\* A text frame as JSON.parse sees it. json tells what the text parses to:
\* "invalid" (JSON.parse throws), "pong" (the string "pong"), "null", "scalar"
\* (another string, a number, a boolean) or "object". For an object each field is
\* "absent" or described by what the router tests of it: request_id 0 stands for
\* no request_id, stream is a wire name, NoStream (absent) or NotAString.
NoStream == << "#absent" >>
NotAString == << "#number" >>

Blank ==
  [ json |-> "object", type |-> "absent", code |-> "absent", message |-> "absent",
    request_id |-> 0, method |-> "absent", stream |-> NoStream, feed |-> "absent" ]

\* No frame was received by the task
NoInbound == [ frame |-> [ Blank EXCEPT !.json = "none" ], event |-> "none" ]

\* No HttpTransport has been constructed.
NoTransport == [ made |-> FALSE, apiKey |-> FALSE, timeout |-> FALSE, signal |-> NoSignal ]

\* _cookie = null
NoCookie == [ held |-> FALSE, gravity |-> "none", expires |-> 0, nan |-> FALSE ]

(* ------------------------------- Init --------------------------------- *)

Init ==
  /\ readyState = "CONNECTING"
  /\ reconnects = 0
  /\ resubscribe \in BOOLEAN
  /\ requestId = 0
  /\ pendingRequests = << >>
  /\ promises = << >>
  /\ subscriptions = [ k \in AllKeys |-> NoEntry ]
  /\ aborted = {}
  /\ wrappers = << >>
  /\ attached = {}
  /\ openListeners = << >>
  /\ sent = << >>
  /\ calls = << >>
  /\ delivered = NoDelivery
  /\ settled = {}
  /\ inbound = NoInbound
  /\ readyCalls = << >>
  /\ signalAborted = {}
  /\ closeCalls = << >>
  /\ keepAlive = [ interval |-> FALSE, timers |-> 0 ]
  /\ http = NoTransport
  /\ cookie = NoCookie
  /\ now = 0
  /\ requests = << >>

(* ------------------------- promise reactions -------------------------- *)

\* Map.set and Map.delete on _pendingRequests
MapSet(f, k, v) == [ x \in (DOMAIN f) \cup {k} |-> IF x = k THEN v ELSE f[x] ]
\* A delete that leaves the map as it was
MapDelete_keep(f, k) == f
MapDelete(f, k) == [ x \in (DOMAIN f) \ {k} |-> f[x] ]

\* A _handleClose that rejects the pending requests only in the branch that
\* clears the index
PendingPromises_whenCleared ==
  IF resubscribe THEN {} ELSE { pendingRequests[i] : i \in DOMAIN pendingRequests }

\* The promises held in _pendingRequests (the values of the map)
PendingPromises == { pendingRequests[i] : i \in DOMAIN pendingRequests }

\* pending.resolve(response) / pending.reject(error) / the timeout's reject, on the
\* promises P: a promise settles once, later calls change nothing.
SettlePromises(P, st) ==
  [ p \in DOMAIN promises |->
      IF p \in P /\ promises[p].state = "pending"
      THEN [ promises[p] EXCEPT !.state = st ]
      ELSE promises[p] ]

\* What the task's settlements hand to the promises: for a fulfilment the
\* response frame (by: its request_id), for a rejection the error (reason:
\* "error" for a server error, "timeout", "closed"; by: the request_id of the
\* error frame, 0 when no frame caused it).
Settlements(P, st, by, rsn) ==
  { [ promise |-> p, state |-> st, by |-> by, reason |-> rsn ] :
      p \in { q \in P : q \in DOMAIN promises /\ promises[q].state = "pending" } }

\* The promises of P that this settlement really settles
Settling(P) == { p \in P : p \in DOMAIN promises /\ promises[p].state = "pending" }

\* A replay without the .catch handler
CatchAbort_never(P, st) == aborted

\* _handleOpen's .catch((error) => subscription.failureController.abort(error)):
\* the controller is the one of the SubscriptionState object the replay was made for.
CatchAbort(P, st) ==
  aborted \cup { promises[p].owner : p \in { q \in Settling(P) : promises[q].kind = "replay" /\ st = "rejected" } }

\* .finally handlers that leave the flag alone
FinallySetFinished_never(P, subs) == subs

\* The .finally handlers of subscribe and _handleOpen: look the entry up by key
\* (this._subscriptions.get(id)) and set its promiseFinished flag. subs is the
\* index as the task left it.
FinallySetFinished(P, subs) ==
  [ k \in AllKeys |->
      IF subs[k].present /\ (\E p \in Settling(P) : promises[p].key = k)
      THEN [ subs[k] EXCEPT !.promiseFinished = TRUE ]
      ELSE subs[k] ]

\* The continuation of subscribe() after `await subscription.promise`: returns the
\* handle { unsubscribe, failureSignal } or throws the rejection.
ResumeCalls(P, st) ==
  [ c \in DOMAIN calls |->
      IF calls[c].status = "waiting" /\ calls[c].promise \in Settling(P)
      THEN [ calls[c] EXCEPT !.status =
               IF promises[calls[c].promise].kind = "replay" \/ st = "fulfilled"
               THEN "resolved" ELSE "rejected" ]
      ELSE calls[c] ]

(* --------------------------- _sendSubscribe --------------------------- *)

\* A counter that is read but not incremented
NextRequestId_same(r) == IF r = 0 THEN 1 ELSE r

\* ++this._requestId
NextRequestId(r) == r + 1

\* The promise _sendSubscribe returns, as created: registered under requestId in
\* _pendingRequests. kind tells which handlers the caller chains on it, owner is
\* the SubscriptionState object it was made for (named by the promise that
\* created the entry).
NewPromise(id, key, kind, owner) ==
  [ id |-> id, key |-> key, kind |-> kind, owner |-> owner,
    state |-> "pending" ]

\* if (readyState === OPEN) socket.send(message)
SendNow(frames) == IF readyState = "OPEN" THEN sent \o frames ELSE sent

\* else socket.addEventListener("open", handleOpen)
\* A request that registers no open listener when the socket is not open
SendOnOpen_drop(frames) == openListeners
SendOnOpen(frames) == IF readyState = "OPEN" THEN openListeners ELSE openListeners \o frames

(* ------------------------------ subscribe ----------------------------- *)

subscribe(key, listener) ==
  LET sub0   == subscriptions[key]
      isNew  == ~sub0.present
      rid    == NextRequestId(requestId)
      pid    == Len(promises) + 1
      sub1   == IF isNew
                THEN [ present |-> TRUE, listeners |-> [ l \in Listeners |-> 0 ],
                       promise |-> pid, promiseFinished |-> FALSE, ctrl |-> pid ]
                ELSE sub0
      isNewListener == sub1.listeners[listener] = 0
      wid    == Len(wrappers) + 1
      sub2   == IF isNewListener THEN [ sub1 EXCEPT !.listeners[listener] = wid ] ELSE sub1
      unsub  == sub2.listeners[listener]
      state  == IF isNew THEN "pending" ELSE ChainedState(sub2.promise)
  IN
  /\ Len(calls) < MaxCalls
  /\ isNew => requestId < MaxRequestId
  /\ IF isNew
     THEN /\ requestId' = rid
          /\ promises' = Append(promises, NewPromise(rid, key, "initial", pid))
          /\ pendingRequests' = MapSet(pendingRequests, rid, pid)
          /\ sent' = SendNow(<< SubscribeFrame(rid, key) >>)
          /\ openListeners' = SendOnOpen(<< SubscribeFrame(rid, key) >>)
     ELSE UNCHANGED << requestId, promises, pendingRequests, sent, openListeners >>
  /\ subscriptions' = [ subscriptions EXCEPT ![key] = sub2 ]
  /\ IF isNewListener
     THEN /\ wrappers' = Append(wrappers, [ key |-> key, listener |-> listener ])
          /\ attached' = attached \cup {wid}
     ELSE UNCHANGED << wrappers, attached >>
  /\ calls' = Append(calls,
       [ key |-> key, listener |-> listener, promise |-> sub2.promise,
         unsub |-> unsub, ctrl |-> sub2.ctrl, first |-> isNew,
         status |-> CASE state = "pending" -> "waiting"
                      [] state = "fulfilled" -> "resolved"
                      [] OTHER -> "rejected" ])
  /\ UNCHANGED << readyState, reconnects, resubscribe, aborted >>
  /\ delivered' = NoDelivery
  /\ inbound' = NoInbound
  /\ settled' = {}
  /\ UNCHANGED << readyCalls, signalAborted, closeCalls, keepAlive >>
  /\ UNCHANGED httpVars

(* ----------------------- the unsubscribe closure ---------------------- *)

\* The closure created in subscribe for wrapper w: it captures stream, id (the
\* key), listener and listenerWrapper. A handle's unsubscribe is the closure
\* stored for its listener in the entry.
unsubscribe(c) ==
  LET w       == calls[c].unsub
      key     == wrappers[w].key
      sub     == subscriptions[key]
      sub1    == [ sub EXCEPT !.listeners[wrappers[w].listener] = 0 ]
      isLast  == sub.present /\ ListenerCount(sub1) = 0
      rid     == NextRequestId(requestId)
      sends   == isLast /\ readyState = "OPEN"
  IN
  /\ calls[c].status = "resolved"
  /\ sends => requestId < MaxRequestId
  /\ attached' = attached \ {w}
  /\ subscriptions' = [ subscriptions EXCEPT ![key] =
                          IF ~sub.present THEN sub ELSE IF isLast THEN NoEntry ELSE sub1 ]
  /\ IF sends
     THEN /\ requestId' = rid
          /\ sent' = Append(sent, UnsubscribeFrame(rid, key))
     ELSE UNCHANGED << requestId, sent >>
  /\ UNCHANGED << readyState, reconnects, resubscribe, pendingRequests, promises,
                  aborted, wrappers, openListeners, calls >>
  /\ delivered' = NoDelivery
  /\ inbound' = NoInbound
  /\ settled' = {}
  /\ UNCHANGED << readyCalls, signalAborted, closeCalls, keepAlive >>
  /\ UNCHANGED httpVars

\* transport.resubscribe = value
SetResubscribe(value) ==
  /\ resubscribe # value
  /\ resubscribe' = value
  /\ UNCHANGED << readyState, reconnects, requestId, pendingRequests, promises,
                  subscriptions, aborted, wrappers, attached, openListeners,
                  sent, calls >>
  /\ delivered' = NoDelivery
  /\ inbound' = NoInbound
  /\ settled' = {}
  /\ UNCHANGED << readyCalls, signalAborted, closeCalls, keepAlive >>
  /\ UNCHANGED httpVars

(* ---------------------------- HttpTransport ---------------------------- *)

\* _cookieRefreshBuffer, in ms
_cookieRefreshBuffer == 5000

\* The default lifetime of a cookie without an expires attribute: 24 hours
DefaultLifetime == 24 * 60 * 60 * 1000

\* The lifetime the login endpoint gives in an expires attribute: one ms more
\* than the refresh buffer, so that the clock of the model crosses into it.
CookieLifetime == _cookieRefreshBuffer + 1

\* An API key test that always finds a key
NoApiKey_never(h) == FALSE

\* The API key test of _shouldRefreshCookie: it throws a plain Error when no
\* key is configured.
NoApiKey(h) == ~h.apiKey

\* A refresh check that lets a cookie live until it is less than the buffer away
_shouldRefreshCookie_strict(c, t) ==
  IF ~c.held THEN TRUE
  ELSE IF c.nan THEN FALSE
  ELSE c.expires - t < _cookieRefreshBuffer

\* _shouldRefreshCookie after its API key test: no cookie, or expiry within the
\* buffer. An expiry that is NaN (new Date of an unparsable text) compares false.
_shouldRefreshCookie(c, t) ==
  IF ~c.held THEN TRUE
  ELSE IF c.nan THEN FALSE
  ELSE c.expires - t <= _cookieRefreshBuffer

\* Errors: the class of the thrown value, what it wraps, and the response and
\* body an HttpRequestError carries.
Thrown(class) == [ class |-> class, cause |-> "none", response |-> FALSE, body |-> "none" ]

NoError == Thrown("none")

HttpRequestError(response, body, cause) ==
  [ class |-> "HttpRequestError", cause |-> cause, response |-> response, body |-> body ]

\* The classes for which instanceof TransportError holds
TransportErrors == { "TransportError", "HttpRequestError", "WebSocketRequestError" }

\* A catch clause that rethrows whatever it caught
RequestCatch_rethrow(err) == err

\* The catch clause of request(): a TransportError is rethrown, anything else
\* is wrapped in an HttpRequestError as its cause.
RequestCatch(err) ==
  IF err.class \in TransportErrors THEN err
  ELSE HttpRequestError(FALSE, "none", err.class)

Reject(req, err) ==
  [ req EXCEPT !.phase = "done", !.outcome = "rejected", !.error = RequestCatch(err) ]

\* What the login endpoint may answer at instant t: no answer (fetch throws), a
\* non-success status, a success without Set-Cookie, a Set-Cookie without the
\* gravity cookie, and a gravity cookie without, with an unparsable and with a
\* valid expires attribute.
LoginResponses(t) ==
       { [ kind |-> k, setCookie |-> FALSE, gravity |-> "none", expires |-> "absent", date |-> 0 ] :
           k \in { "networkError", "notOk", "ok" } }
  \cup { [ kind |-> "ok", setCookie |-> TRUE, gravity |-> "none", expires |-> "date",
           date |-> t + CookieLifetime ] }
  \cup { [ kind |-> "ok", setCookie |-> TRUE, gravity |-> g, expires |-> e,
           date |-> IF e = "date" THEN t + CookieLifetime ELSE 0 ] :
           g \in { "g1", "g2" }, e \in { "absent", "invalid", "date" } }

\* A _getCookie that takes whatever a successful response carries
_getCookie_unchecked(resp, t) ==
  IF resp.kind # "ok" THEN NoCookie
  ELSE [ held |-> TRUE, gravity |-> resp.gravity, expires |-> t + DefaultLifetime,
         nan |-> FALSE ]

\* The value _getCookie returns for a login response received at instant t
\* (NoCookie for null).
_getCookie(resp, t) ==
  IF resp.kind # "ok" THEN NoCookie
  ELSE IF ~resp.setCookie THEN NoCookie
  ELSE IF resp.gravity = "none" THEN NoCookie
  ELSE [ held |-> TRUE, gravity |-> resp.gravity,
         expires |-> IF resp.expires = "absent" THEN t + DefaultLifetime
                     ELSE IF resp.expires = "invalid" THEN 0 ELSE resp.date,
         nan |-> resp.expires = "invalid" ]

\* A store that takes the new value and keeps the old expiry
StoreCookie_valueOnly(old, new) ==
  IF old.held THEN [ old EXCEPT !.gravity = new.gravity ] ELSE new

\* this._cookie = cookie in _refreshCookie
StoreCookie(old, new) == new

\* A merge in which the caller's signal replaces the others
_mergeRequestInit_callerOnly(req) == { req.signal } \ { NoSignal }

\* The signals _mergeRequestInit collects besides the timeout signal: the one
\* of fetchOptions and the caller's.
_mergeRequestInit(req) == { http.signal, req.signal } \ { NoSignal }

\* AbortSignal_.any: aborted as soon as one of the signals is
AnyAborted(signals, fired) == signals \cap fired # {}

\* A header rule that sends the cookie whenever one is held
CookieHeader_whenHeld(req, c) == IF c.held THEN c.gravity ELSE "none"

\* The Cookie header of the primary request: gravity=<value> when the request
\* requires authentication and a cookie is held, otherwise none.
CookieHeader(req, c) == IF req.auth /\ c.held THEN c.gravity ELSE "none"

\* Lines 171-200 of request() with cookie c held: the Cookie header, the merged
\* signal and fetch. fetch with a signal that is already aborted rejects
\* without sending.
SendPrimary(req, c) ==
  IF AnyAborted(_mergeRequestInit(req), signalAborted)
  THEN Reject(req, Thrown("AbortError"))
  ELSE [ req EXCEPT !.phase = "primary", !.primarySent = TRUE,
                    !.cookieHeader = CookieHeader(req, c),
                    !.timer = http.timeout ]

\* What an abort event of signal does to a request
AbortRequest(req, signal) ==
  IF req.phase = "primary" /\ signal \in _mergeRequestInit(req)
  THEN Reject(req, Thrown("AbortError"))
  ELSE req

\* Every action of the HTTP transport leaves the WebSocket side alone.
WsIdle ==
  /\ UNCHANGED wsVars
  /\ delivered' = NoDelivery
  /\ inbound' = NoInbound
  /\ settled' = {}

\* new HttpTransport(options)
NewHttpTransport(apiKey, timeout, signal) ==
  /\ ~http.made
  /\ http' = [ made |-> TRUE, apiKey |-> apiKey, timeout |-> timeout, signal |-> signal ]
  /\ UNCHANGED << cookie, now, requests, signalAborted >>
  /\ WsIdle

\* request(endpointType, path, payload, { requiresAuth: auth, signal }) up to
\* its first suspension at a fetch
request(auth, signal) ==
  LET req0 == [ auth |-> auth, signal |-> signal, phase |-> "start",
                outcome |-> "pending", error |-> NoError, body |-> "none",
                loginSent |-> FALSE, primarySent |-> FALSE, cookieHeader |-> "none",
                timer |-> FALSE ]
      req  == IF ~auth THEN SendPrimary(req0, cookie)
              ELSE IF NoApiKey(http) THEN Reject(req0, Thrown("Error"))
              ELSE IF _shouldRefreshCookie(cookie, now)
                   THEN [ req0 EXCEPT !.phase = "login", !.loginSent = TRUE ]
              ELSE SendPrimary(req0, cookie)
  IN
  /\ http.made
  /\ Len(requests) < MaxRequests
  /\ requests' = Append(requests, req)
  /\ UNCHANGED << http, cookie, now, signalAborted >>
  /\ WsIdle

\* The login fetch of request r settles with resp: _getCookie returns, and
\* _refreshCookie stores the cookie and request() goes on to the primary
\* request, or _refreshCookie throws.
LoginResponse(r, resp) ==
  LET c == _getCookie(resp, now) IN
  /\ requests[r].phase = "login"
  /\ cookie' = IF c.held THEN StoreCookie(cookie, c) ELSE cookie
  /\ requests' = [ requests EXCEPT ![r] =
       IF c.held THEN SendPrimary(@, c)
       ELSE Reject(@, HttpRequestError(FALSE, "Failed to obtain authentication cookie", "none")) ]
  /\ UNCHANGED << http, now, signalAborted >>
  /\ WsIdle

\* What the endpoint may answer to the primary request: no answer, or a
\* response with a status, a content type and a body that can be read or not.
PrimaryResponses ==
       { [ kind |-> "networkError", ok |-> FALSE, json |-> FALSE, readable |-> FALSE ] }
  \cup { [ kind |-> "response", ok |-> o, json |-> j, readable |-> b ] :
           o \in BOOLEAN, j \in BOOLEAN, b \in BOOLEAN }

\* The primary fetch of request r settles with resp (lines 200-217).
PrimaryResponse(r, resp) ==
  /\ requests[r].phase = "primary"
  /\ requests' = [ requests EXCEPT ![r] =
       IF resp.kind = "networkError" THEN Reject(@, Thrown("TypeError"))
       ELSE IF ~resp.ok \/ ~resp.json
            THEN Reject(@, HttpRequestError(TRUE, IF resp.readable THEN "text" ELSE "none", "none"))
       ELSE IF ~resp.readable THEN Reject(@, Thrown("SyntaxError"))
       ELSE [ @ EXCEPT !.phase = "done", !.outcome = "returned", !.body = "json" ] ]
  /\ UNCHANGED << http, cookie, now, signalAborted >>
  /\ WsIdle

\* The signal of AbortSignal_.timeout(this.timeout) of request r fires. It is
\* made when the primary request is sent; once the request has settled its
\* firing changes nothing.
TimeoutFires(r) ==
  /\ requests[r].phase = "primary"
  /\ requests[r].timer
  /\ requests' = [ requests EXCEPT ![r] =
       Reject(@, Thrown("TimeoutError")) ]
  /\ UNCHANGED << http, cookie, now, signalAborted >>
  /\ WsIdle

\* Time passes.
Tick ==
  /\ now < MaxNow
  /\ now' = now + 1
  /\ UNCHANGED << http, cookie, requests, signalAborted >>
  /\ WsIdle

(* ------------------------------ keepalive ------------------------------ *)

\* start, the "open" listener of _initKeepAlive: with a handle held it returns,
\* otherwise setInterval makes a timer and the handle is stored.
start(k) ==
  IF k.interval THEN k ELSE [ interval |-> TRUE, timers |-> k.timers + 1 ]

\* A stop that drops the handle without clearing the timer
_stopKeepAlive_noClear(k) == [ k EXCEPT !.interval = FALSE ]

\* _stopKeepAlive (the "close" and "error" listeners of _initKeepAlive call
\* it, and close() does): clearInterval on the held handle.
_stopKeepAlive(k) ==
  IF k.interval THEN [ interval |-> FALSE, timers |-> k.timers - 1 ] ELSE k

\* The frame the interval callback serialises: { method: "ping" }
PingFrame ==
  [ request_id |-> 0, stream |-> NoStream, feed |-> << >>,
    method |-> "ping", is_full |-> FALSE ]

\* One run of the setInterval callback of a running timer.
KeepAliveTick ==
  /\ keepAlive.timers > 0
  /\ Cardinality({ i \in DOMAIN sent : sent[i].method = "ping" }) < MaxPings
  /\ readyState = "OPEN"
  /\ sent' = Append(sent, PingFrame)
  /\ UNCHANGED << readyState, reconnects, resubscribe, requestId, pendingRequests,
                  promises, subscriptions, aborted, wrappers, attached,
                  openListeners, calls, readyCalls, signalAborted, closeCalls,
                  keepAlive >>
  /\ UNCHANGED httpVars
  /\ delivered' = NoDelivery
  /\ inbound' = NoInbound
  /\ settled' = {}

(* -------------------------- transport.close() ------------------------- *)

\* handleClose of close(): registered with { once: true }; it removes the abort
\* listener and resolves.
closeHandleClose(call) ==
  [ call EXCEPT !.status = "resolved",
                !.listeners = (@ \ { "close" }) \ { "abort" } ]

\* An abort handler that leaves the close listener on the socket
closeHandleAbort_keepsClose(call) ==
  [ call EXCEPT !.status = "aborted", !.listeners = @ \ { "abort" } ]

\* handleAbort of close(): registered with { once: true }; it removes the close
\* listener and rejects with "Aborted while closing connection".
closeHandleAbort(call) ==
  [ call EXCEPT !.status = "aborted",
                !.listeners = (@ \ { "abort" }) \ { "close" } ]

\* The listeners a close() call registers: close on the socket, abort on the
\* signal when there is one.
CloseListeners(signal) ==
  IF signal = NoSignal THEN { "close" } ELSE { "close", "abort" }

\* The socket's "close" event as the close() calls see it.
CloseEvent ==
  [ i \in DOMAIN closeCalls |->
      IF "close" \in closeCalls[i].listeners
      THEN closeHandleClose(closeCalls[i]) ELSE closeCalls[i] ]

\* socket.close(): a socket that is connecting or open starts closing.
SocketCloseCall(state) ==
  IF state \in { "CONNECTING", "OPEN" } THEN "CLOSING" ELSE state

\* transport.close(signal)
close(signal) ==
  LET early == (signal # NoSignal /\ signal \in signalAborted) \/ readyState = "CLOSED" IN
  /\ Len(closeCalls) < MaxCloseCalls
  /\ closeCalls' = Append(closeCalls,
       IF signal # NoSignal /\ signal \in signalAborted
       THEN [ signal |-> signal, status |-> "aborted",
              registered |-> {}, listeners |-> {} ]
       ELSE IF readyState = "CLOSED"
       THEN [ signal |-> signal, status |-> "resolved",
              registered |-> {}, listeners |-> {} ]
       ELSE [ signal |-> signal, status |-> "pending",
              registered |-> CloseListeners(signal),
              listeners |-> CloseListeners(signal) ])
  /\ keepAlive' = IF early THEN keepAlive ELSE _stopKeepAlive(keepAlive)
  /\ readyState' = IF early THEN readyState ELSE SocketCloseCall(readyState)
  /\ UNCHANGED << reconnects, resubscribe, requestId, pendingRequests,
                  promises, subscriptions, aborted, wrappers, attached,
                  openListeners, sent, calls, readyCalls, signalAborted >>
  /\ UNCHANGED httpVars
  /\ delivered' = NoDelivery
  /\ inbound' = NoInbound
  /\ settled' = {}

(* -------------------------- transport.ready() ------------------------- *)

\* handleOpen of ready(): registered with { once: true }, so the open listener
\* is gone when it runs; it removes the abort and the error listener and
\* resolves.
handleOpen(call) ==
  [ call EXCEPT !.status = "resolved",
                !.listeners = (@ \ { "open" }) \ { "abort", "error" } ]

\* handleError of ready(): removes the abort and the open listener and rejects
\* with "Failed to establish WebSocket connection".
handleError(call) ==
  [ call EXCEPT !.status = "failed",
                !.listeners = (@ \ { "error" }) \ { "abort", "open" } ]

\* An abort handler that forgets the error listener
handleAbort_keepsError(call) ==
  [ call EXCEPT !.status = "aborted",
                !.listeners = (@ \ { "abort" }) \ { "open" } ]

\* handleAbort of ready(): removes the open and the error listener and rejects
\* with "Aborted while waiting for connection".
handleAbort(call) ==
  [ call EXCEPT !.status = "aborted",
                !.listeners = (@ \ { "abort" }) \ { "open", "error" } ]

\* The listeners a waiting ready() call registers: open and error on the
\* socket, abort on the signal when there is one (signal?.addEventListener).
ReadyListeners(signal) ==
  IF signal = NoSignal THEN { "open", "error" } ELSE { "open", "error", "abort" }

\* transport.ready(signal)
ready(signal) ==
  /\ Len(readyCalls) < MaxReadyCalls
  /\ readyCalls' = Append(readyCalls,
       IF signal # NoSignal /\ signal \in signalAborted
       THEN [ signal |-> signal, status |-> "aborted",
              registered |-> {}, listeners |-> {} ]
       ELSE IF readyState = "OPEN"
       THEN [ signal |-> signal, status |-> "resolved",
              registered |-> {}, listeners |-> {} ]
       ELSE [ signal |-> signal, status |-> "pending",
              registered |-> ReadyListeners(signal),
              listeners |-> ReadyListeners(signal) ])
  /\ UNCHANGED << readyState, reconnects, resubscribe, requestId, pendingRequests,
                  promises, subscriptions, aborted, wrappers, attached,
                  openListeners, sent, calls, signalAborted, closeCalls, keepAlive >>
  /\ UNCHANGED httpVars
  /\ delivered' = NoDelivery
  /\ inbound' = NoInbound
  /\ settled' = {}

\* The caller aborts signal: its abort event runs the handleAbort of every
\* ready() and close() call that still listens to it.
AbortSignal(signal) ==
  /\ signal \notin signalAborted
  /\ signalAborted' = signalAborted \cup { signal }
  /\ readyCalls' = [ i \in DOMAIN readyCalls |->
                      IF readyCalls[i].signal = signal /\ "abort" \in readyCalls[i].listeners
                      THEN handleAbort(readyCalls[i]) ELSE readyCalls[i] ]
  /\ closeCalls' = [ i \in DOMAIN closeCalls |->
                      IF closeCalls[i].signal = signal /\ "abort" \in closeCalls[i].listeners
                      THEN closeHandleAbort(closeCalls[i]) ELSE closeCalls[i] ]
  /\ UNCHANGED << readyState, reconnects, resubscribe, requestId, pendingRequests,
                  promises, subscriptions, aborted, wrappers, attached,
                  openListeners, sent, calls, keepAlive >>
  /\ requests' = [ r \in DOMAIN requests |-> AbortRequest(requests[r], signal) ]
  /\ UNCHANGED << http, cookie, now >>
  /\ delivered' = NoDelivery
  /\ inbound' = NoInbound
  /\ settled' = {}

(* ----------------------------- _handleOpen ---------------------------- *)

\* The entries _handleOpen replays, in the iteration order of the Map (insertion
\* order: entries are inserted when created, so in the order of their creation).
ReplayOrder ==
  LET S == IF resubscribe
           THEN { k \in AllKeys : subscriptions[k].present /\ subscriptions[k].promiseFinished }
           ELSE {}
  IN CHOOSE q \in [ 1 .. Cardinality(S) -> S ] :
       \A i, j \in 1 .. Cardinality(S) :
         i < j => subscriptions[q[i]].ctrl < subscriptions[q[j]].ctrl

\* The value of _requestId after n more increments
RECURSIVE RequestIdAfter(_, _)
RequestIdAfter(r, n) == IF n = 0 THEN r ELSE NextRequestId(RequestIdAfter(r, n - 1))

\* The socket's "open" event. Its listeners run in the order they were added:
\* the manager's _handleOpen (added in its constructor), then the deferred-send
\* listeners that _sendSubscribe added while the socket was not open.
SocketOpen ==
  LET order  == ReplayOrder
      n      == Len(order)
      base   == Len(promises)
      id(i)  == RequestIdAfter(requestId, i)
      replay == [ i \in 1 .. n |-> NewPromise(id(i), order[i], "replay", subscriptions[order[i]].ctrl) ]
      frames == [ i \in 1 .. n |-> SubscribeFrame(id(i), order[i]) ]
      ids    == { id(i) : i \in 1 .. n }
  IN
  /\ readyState = "CONNECTING"
  /\ requestId + n <= MaxRequestId
  /\ readyState' = "OPEN"
  /\ requestId' = RequestIdAfter(requestId, n)
  /\ promises' = promises \o replay
  /\ pendingRequests' =
       [ x \in (DOMAIN pendingRequests) \cup ids |->
           IF x \in ids
           THEN base + (CHOOSE i \in 1 .. n : id(i) = x /\ \A j \in 1 .. n : id(j) = x => j <= i)
           ELSE pendingRequests[x] ]
  /\ subscriptions' =
       [ k \in AllKeys |->
           IF \E i \in 1 .. n : order[i] = k
           THEN [ subscriptions[k] EXCEPT
                    !.promise = base + (CHOOSE i \in 1 .. n : order[i] = k),
                    !.promiseFinished = FALSE ]
           ELSE subscriptions[k] ]
  /\ sent' = sent \o frames \o openListeners
  /\ openListeners' = << >>
  /\ UNCHANGED << reconnects, resubscribe, aborted, wrappers, attached, calls >>
  /\ delivered' = NoDelivery
  /\ inbound' = NoInbound
  /\ settled' = {}
  /\ readyCalls' = [ i \in DOMAIN readyCalls |->
                      IF "open" \in readyCalls[i].listeners
                      THEN handleOpen(readyCalls[i]) ELSE readyCalls[i] ]
  /\ keepAlive' = start(keepAlive)
  /\ UNCHANGED << signalAborted, closeCalls >>
  /\ UNCHANGED httpVars

(* ----------------------------- _handleClose --------------------------- *)

\* _handleClose, run by the socket's "close" and "error" listeners. With
\* resubscribe off it calls every unsubscribe closure stored in the entries (the
\* socket is not OPEN during these events, so the closures send nothing) and
\* clears the index; then it rejects and clears every pending request.
_handleClose ==
  LET P    == PendingPromises
      subs == IF resubscribe THEN subscriptions ELSE [ k \in AllKeys |-> NoEntry ]
      gone == IF resubscribe THEN {}
              ELSE { subscriptions[k].listeners[l] : k \in AllKeys, l \in Listeners } \ {0}
  IN
  /\ attached' = attached \ gone
  /\ promises' = SettlePromises(P, "rejected")
  /\ settled' = Settlements(P, "rejected", 0, "closed")
  /\ pendingRequests' = << >>
  /\ aborted' = CatchAbort(P, "rejected")
  /\ subscriptions' = FinallySetFinished(P, subs)
  /\ calls' = ResumeCalls(P, "rejected")
  /\ UNCHANGED << reconnects, resubscribe, requestId, wrappers, openListeners, sent >>
  /\ delivered' = NoDelivery
  /\ inbound' = NoInbound

\* The connection fails: the socket becomes CLOSED and fires "error" and then
\* "close" in one task. Both listeners run _handleClose; the second run finds the
\* pending index empty and (with resubscribe off) the entry index cleared.
SocketError ==
  /\ readyState \in { "CONNECTING", "OPEN", "CLOSING" }
  /\ readyState' = "CLOSED"
  /\ _handleClose
  /\ readyCalls' = [ i \in DOMAIN readyCalls |->
                      IF "error" \in readyCalls[i].listeners
                      THEN handleError(readyCalls[i]) ELSE readyCalls[i] ]
  /\ closeCalls' = CloseEvent
  /\ keepAlive' = _stopKeepAlive(keepAlive)
  /\ UNCHANGED httpVars
  /\ UNCHANGED signalAborted

\* The connection is closed without an error: the socket fires "close".
SocketClose ==
  /\ readyState \in { "OPEN", "CLOSING" }
  /\ readyState' = "CLOSED"
  /\ _handleClose
  /\ UNCHANGED << readyCalls, signalAborted >>
  /\ closeCalls' = CloseEvent
  /\ keepAlive' = _stopKeepAlive(keepAlive)
  /\ UNCHANGED httpVars

\* The socket connects again after it was closed (the reconnect that
\* _handleOpen's replay is written for).
SocketReconnect ==
  /\ readyState = "CLOSED"
  /\ reconnects < MaxReconnects
  /\ readyState' = "CONNECTING"
  /\ reconnects' = reconnects + 1
  /\ UNCHANGED << resubscribe, requestId, pendingRequests, promises,
                  subscriptions, aborted, wrappers, attached, openListeners,
                  sent, calls >>
  /\ delivered' = NoDelivery
  /\ inbound' = NoInbound
  /\ settled' = {}
  /\ UNCHANGED << readyCalls, signalAborted, closeCalls, keepAlive >>
  /\ UNCHANGED httpVars

(* ------------------------------- timeout ------------------------------ *)

\* The setTimeout callback of _sendSubscribe for promise p, 10 s after the call.
\* The callback runs once; it is enabled here at any later moment as well,
\* because a second run finds what the first left: the id is not in the index
\* (ids are never entered twice) and the promise is settled.
Timeout(p) ==
  LET id   == promises[p].id
      hit  == id \in DOMAIN pendingRequests
      P    == IF hit THEN {p} ELSE {}
  IN
  /\ pendingRequests' = IF hit THEN MapDelete(pendingRequests, id) ELSE pendingRequests
  /\ promises' = SettlePromises(P, "rejected")
  /\ settled' = Settlements(P, "rejected", 0, "timeout")
  /\ aborted' = CatchAbort(P, "rejected")
  /\ subscriptions' = FinallySetFinished(P, subscriptions)
  /\ calls' = ResumeCalls(P, "rejected")
  /\ UNCHANGED << readyState, reconnects, resubscribe, requestId, wrappers, attached,
                  openListeners, sent >>
  /\ delivered' = NoDelivery
  /\ inbound' = NoInbound
  /\ UNCHANGED << readyCalls, signalAborted, closeCalls, keepAlive >>
  /\ UNCHANGED httpVars

(* --------------------------- inbound frames --------------------------- *)

\* The frames the server side of the model sends: acknowledgements
\* { request_id?, method, stream }, errors { code, message, request_id }, a data
\* frame { stream, feed }, an acknowledgement that echoes the request's feed
\* list, a keepalive answer and a text that is not JSON.
Frames ==
       { [ Blank EXCEPT !.request_id = i, !.method = "subscribe", !.stream = <<"v1", "ticker">> ] :
           i \in 0 .. MaxRequestId }
  \cup { [ Blank EXCEPT !.code = "number", !.message = "string", !.request_id = i ] :
           i \in 1 .. MaxRequestId }
  \cup { [ Blank EXCEPT !.stream = <<"v1", "ticker">>, !.feed = "payload" ] }
  \cup { [ Blank EXCEPT !.request_id = 1, !.method = "subscribe", !.stream = <<"v1", "ticker">>,
                        !.feed = "array" ] }
  \cup { [ Blank EXCEPT !.json = "pong" ], [ Blank EXCEPT !.json = "invalid" ] }

\* typeof msg === "object" && msg !== null
IsObject(msg) == msg.json = "object"

\* msg === "pong" || (typeof msg === "object" && msg?.type === "pong")
IsPong(msg) == msg.json = "pong" \/ (msg.json = "object" /\ msg.type = "pong")

isErrorMessage(msg) ==
  IsObject(msg) /\ msg.code # "absent" /\ msg.message # "absent" /\ msg.code = "number"

isSubscriptionResponse(msg) ==
  /\ IsObject(msg)
  /\ msg.method # "absent" \/ msg.stream # NoStream
  /\ ~(msg.feed # "absent" /\ msg.feed # "array")

isDataMessage(msg) ==
  IsObject(msg) /\ msg.stream # NoStream /\ msg.feed # "absent" /\ msg.stream # NotAString

\* A router whose catch block reports the parse failure as an error event
Classify_reportsInvalid(msg) ==
  CASE msg.json = "invalid" -> "error"
    [] IsPong(msg) -> "pong"
    [] isErrorMessage(msg) -> "error"
    [] isSubscriptionResponse(msg) /\ ~isDataMessage(msg) -> "subscriptionResponse"
    [] isDataMessage(msg) -> "data"
    [] OTHER -> "none"

\* A router that tests for data before error and subscription response
Classify_dataFirst(msg) ==
  CASE msg.json = "invalid" -> "none"
    [] IsPong(msg) -> "pong"
    [] isDataMessage(msg) -> "data"
    [] isErrorMessage(msg) -> "error"
    [] isSubscriptionResponse(msg) -> "subscriptionResponse"
    [] OTHER -> "none"

\* The event the "message" listener of GrvtEventTarget dispatches for a frame:
\* its tests in the order of the code, the first that holds wins; "none" when the
\* listener returns (or catches) without dispatching.
Classify(msg) ==
  CASE msg.json = "invalid" -> "none"
    [] IsPong(msg) -> "pong"
    [] isErrorMessage(msg) -> "error"
    [] isSubscriptionResponse(msg) /\ ~isDataMessage(msg) -> "subscriptionResponse"
    [] isDataMessage(msg) -> "data"
    [] OTHER -> "none"

\* A lookup that falls back to the newest pending request when the frame's id
\* is absent or unknown
Correlate_fallback(msg) ==
  IF msg.request_id # 0 /\ msg.request_id \in DOMAIN pendingRequests
  THEN { msg.request_id }
  ELSE IF DOMAIN pendingRequests # {}
  THEN { CHOOSE i \in DOMAIN pendingRequests : \A j \in DOMAIN pendingRequests : i >= j }
  ELSE {}

\* A lookup that takes the oldest pending request whatever id the frame carries
Correlate_oldest(msg) ==
  IF msg.request_id # 0 /\ DOMAIN pendingRequests # {}
  THEN { CHOOSE i \in DOMAIN pendingRequests : \A j \in DOMAIN pendingRequests : i <= j }
  ELSE {}

\* The request whose PendingRequest a "subscriptionResponse" or "error" event
\* settles: this._pendingRequests.get(detail.request_id), when request_id is
\* defined and the map has it.
Correlate(msg) ==
  IF msg.request_id # 0 /\ msg.request_id \in DOMAIN pendingRequests
  THEN { msg.request_id } ELSE {}

\* A dispatch that reaches only the listeners of the first feed
Invoked_oneFeed(name) ==
  { w \in attached : wrappers[w].key[1] = name /\ wrappers[w].key[2] = "BTC@500" }

\* The wrappers the event target invokes for an event dispatched under name:
\* each listener attached under that name, once.
Invoked(name) == { w \in attached : wrappers[w].key[1] = name }

\* The socket's "message" event with frame msg: the router's listener and the
\* manager's listeners it dispatches to
Route(msg) ==
  LET class == Classify(msg)
      ids   == IF class \in { "subscriptionResponse", "error" } THEN Correlate(msg) ELSE {}
      P     == { pendingRequests[i] : i \in ids }
      st    == IF class = "error" THEN "rejected" ELSE "fulfilled"
      rsn   == IF class = "error" THEN "error" ELSE "none"
  IN
  /\ readyState = "OPEN"
  /\ pendingRequests' = [ x \in (DOMAIN pendingRequests) \ ids |-> pendingRequests[x] ]
  /\ promises' = SettlePromises(P, st)
  /\ settled' = Settlements(P, st, msg.request_id, rsn)
  /\ aborted' = CatchAbort(P, st)
  /\ subscriptions' = FinallySetFinished(P, subscriptions)
  /\ calls' = ResumeCalls(P, st)
  /\ delivered' = IF class = "data"
                  THEN [ wids |-> Invoked(StripPrefix(msg.stream)), feed |-> msg.feed ]
                  ELSE NoDelivery
  /\ UNCHANGED << readyState, reconnects, resubscribe, requestId, wrappers,
                  attached, openListeners, sent >>
  /\ UNCHANGED << readyCalls, signalAborted, closeCalls, keepAlive >>
  /\ UNCHANGED httpVars

\* The "message" event, the frame not observed
OnMessage(msg) == Route(msg) /\ inbound' = NoInbound

\* The "message" event, the frame and the dispatched event observed
Receive(msg) == Route(msg) /\ inbound' = [ frame |-> msg, event |-> Classify(msg) ]

(* ---------------------------- specification --------------------------- *)

Next ==
  \/ \E key \in Keys, listener \in Listeners : subscribe(key, listener)
  \/ \E c \in DOMAIN calls : unsubscribe(c)
  \/ \E value \in BOOLEAN : SetResubscribe(value)
  \/ SocketOpen
  \/ SocketError
  \/ SocketClose
  \/ SocketReconnect
  \/ \E p \in DOMAIN promises : Timeout(p)
  \/ \E msg \in Frames : OnMessage(msg)

Spec == Init /\ [][Next]_vars

\* The frames of RouterSpec: every combination of the fields the router's
\* response and data tests read (request_id, method, stream, feed), error-shaped
\* frames with and without a numeric code, a message, a request_id and data
\* fields, the two pong shapes, and texts that parse to null, to a scalar or
\* not at all.
RouterFrames ==
       { [ Blank EXCEPT !.request_id = i, !.method = m, !.stream = st, !.feed = fe ] :
           i \in 0 .. 2, m \in { "absent", "subscribe" },
           st \in { NoStream, NotAString, <<"v1", "ticker">> },
           fe \in { "absent", "array", "payload" } }
  \cup { [ Blank EXCEPT !.code = c, !.message = m, !.request_id = i, !.stream = sf[1], !.feed = sf[2] ] :
           c \in { "number", "string" }, m \in { "absent", "string" }, i \in 0 .. 2,
           sf \in { << NoStream, "absent" >>, << <<"v1", "ticker">>, "payload" >> } }
  \cup { [ Blank EXCEPT !.type = "pong" ],
         [ Blank EXCEPT !.type = "pong", !.stream = <<"v1", "ticker">>, !.feed = "payload" ] }
  \cup { [ Blank EXCEPT !.json = j ] : j \in { "pong", "null", "scalar", "invalid" } }

\* The manager and the router with every inbound frame observed, for a run of at
\* most RouterMaxCalls subscribe() calls.
RouterNext ==
  \/ \E key \in Keys, listener \in Listeners :
       Len(calls) < RouterMaxCalls /\ subscribe(key, listener)
  \/ SocketOpen
  \/ SocketError
  \/ \E p \in DOMAIN promises : Timeout(p)
  \/ \E msg \in RouterFrames : Receive(msg)

RouterSpec == Init /\ [][RouterNext]_vars

\* The socket and the ready() calls waiting for it
ReadyNext ==
  \/ \E signal \in Signals \cup { NoSignal } : ready(signal)
  \/ \E signal \in Signals : AbortSignal(signal)
  \/ SocketOpen
  \/ SocketError
  \/ SocketClose
  \/ SocketReconnect

ReadySpec == Init /\ [][ReadyNext]_vars

\* The socket, its keepalive timer and the close() calls
CloseNext ==
  \/ \E signal \in Signals \cup { NoSignal } : close(signal)
  \/ \E signal \in Signals : AbortSignal(signal)
  \/ KeepAliveTick
  \/ SocketOpen
  \/ SocketError
  \/ SocketClose
  \/ SocketReconnect

CloseSpec == Init /\ [][CloseNext]_vars

\* One HttpTransport without timeout and signals, its authenticated and
\* unauthenticated requests, every answer of the login endpoint, a primary
\* request that fails or succeeds, and the clock
AuthNext ==
  \/ \E apiKey \in BOOLEAN : NewHttpTransport(apiKey, FALSE, NoSignal)
  \/ \E auth \in BOOLEAN : request(auth, NoSignal)
  \/ \E r \in DOMAIN requests : \E resp \in LoginResponses(now) : LoginResponse(r, resp)
  \/ \E r \in DOMAIN requests :
       \E resp \in { x \in PrimaryResponses : x.kind = "networkError" \/ (x.ok /\ x.json /\ x.readable) } :
         PrimaryResponse(r, resp)
  \/ Tick

AuthSpec == Init /\ [][AuthNext]_vars

\* One HttpTransport, at most HttpMaxRequests requests, every answer of the
\* endpoints, the timeout and the abort signals
HttpNext ==
  \/ \E apiKey \in BOOLEAN, timeout \in BOOLEAN, signal \in { NoSignal, "S2" } :
       NewHttpTransport(apiKey, timeout, signal)
  \/ \E auth \in BOOLEAN, signal \in { NoSignal, "S1" } :
       Len(requests) < HttpMaxRequests /\ request(auth, signal)
  \/ \E r \in DOMAIN requests : \E resp \in LoginResponses(now) : LoginResponse(r, resp)
  \/ \E r \in DOMAIN requests : \E resp \in PrimaryResponses : PrimaryResponse(r, resp)
  \/ \E r \in DOMAIN requests : TimeoutFires(r)
  \/ \E signal \in Signals : AbortSignal(signal)

HttpSpec == Init /\ [][HttpNext]_vars

(* ------------------------------- claims ------------------------------- *)

\* The elements of a sequence
Range(seq) == { seq[i] : i \in DOMAIN seq }

\* Frame f is a frame of the given method for key
IsFrameFor(f, key, method) ==
  f.method = method /\ f.stream = _normalizeStreamName(key[1]) /\ f.feed = << key[2] >>

\* The frames a step passes to socket.send
NewlySent == SubSeq(sent', Len(sent) + 1, Len(sent'))

\* The subscribe requests made by a first subscribe() call that are still pending
PendingInitial(key) ==
  { p \in DOMAIN promises :
      promises[p].key = key /\ promises[p].kind = "initial" /\ promises[p].state = "pending" }

\* The wrappers attached to the event target that were registered for key (and listener)
AttachedFor(key) == { w \in attached : wrappers[w].key = key }
AttachedOf(key, listener) == { w \in AttachedFor(key) : wrappers[w].listener = listener }

\* C1: while the subscribe request of the first subscribe() call for a key is
\* pending, however many subscribe() calls were made for the key: one subscribe
\* request was issued for it (its frame was sent once, or waits once for the open
\* event), the index holds one entry for the key, the one awaiting that request,
\* and each listener reference has one wrapper attached for the key.
C1_OneFrameOneEntry ==
  \A key \in Keys :
    /\ Cardinality(PendingInitial(key)) <= 1
    /\ \A p \in PendingInitial(key) :
         /\ subscriptions[key].present
         /\ subscriptions[key].promise = p
         /\ Cardinality({ i \in DOMAIN sent : sent[i].request_id = promises[p].id })
              + Cardinality({ i \in DOMAIN openListeners : openListeners[i].request_id = promises[p].id }) = 1
         /\ \A l \in Listeners : Cardinality(AttachedOf(key, l)) <= 1

\* C2: a promise settled by a response or error frame is the one that was issued
\* under the frame's request_id, and a subscribe() call is resumed exactly when
\* the request it awaits settles: never by a frame that carries another id.
C2_OwnCorrelationId ==
  /\ \A x \in settled : x.by # 0 => promises[x.promise].id = x.by
  /\ \A c \in DOMAIN calls :
       calls[c].status = "waiting" <=> promises[calls[c].promise].state = "pending"

\* Two calls on distinct keys are pending together and the frame for the later
\* one arrives first: it settles the later call only.
C2_Witness ==
  \E c, d \in DOMAIN calls :
    /\ c < d /\ calls[c].key # calls[d].key
    /\ calls[c].status = "waiting" /\ calls[d].status # "waiting"
    /\ \E x \in settled : x.promise = calls[d].promise /\ x.by = promises[calls[d].promise].id

\* C3 (state part): the ids of the requests rise in the order they were issued, no
\* two frames carry one id, no id exceeds the counter, and every pending request
\* is in the pending index under its own id (none was overwritten).
C3_IdsUnique ==
  /\ \A p, q \in DOMAIN promises : p < q => promises[p].id < promises[q].id
  /\ LET frames == sent \o openListeners
     IN /\ \A i, j \in DOMAIN frames : i # j => frames[i].request_id # frames[j].request_id
        /\ \A i \in DOMAIN frames : frames[i].request_id <= requestId
  /\ \A p \in DOMAIN promises :
       promises[p].state = "pending" =>
         /\ promises[p].id \in DOMAIN pendingRequests
         /\ pendingRequests[promises[p].id] = p
  /\ \A i \in DOMAIN pendingRequests : promises[pendingRequests[i]].id = i

\* C3: every subscribe and unsubscribe frame carries an id strictly greater than
\* every id issued before it (the frames built in a step carry ids above the
\* counter's value before the step, and the counter never falls), so no id is
\* reused and the pending index holds one request under each id.
C3_IdsStrictlyIncrease ==
  /\ []C3_IdsUnique
  /\ [][ /\ requestId' >= requestId
         /\ \A f \in (Range(sent') \cup Range(openListeners')) \ (Range(sent) \cup Range(openListeners)) :
              f.request_id > requestId /\ f.request_id <= requestId' ]_vars

\* A subscribe frame and a later unsubscribe frame are on the wire while a
\* further request is pending.
C3_Witness ==
  /\ \E i, j \in DOMAIN sent :
       i < j /\ sent[i].method = "subscribe" /\ sent[j].method = "unsubscribe"
  /\ DOMAIN pendingRequests # {}

\* C4: the index holds an entry for a key exactly when a wrapper registered for
\* that key is attached to the event target.
C4_EntryIffListener ==
  \A key \in Keys : subscriptions[key].present <=> AttachedFor(key) # {}

\* C5: when a handle's unsubscribe removes the last listener of a key, the entry
\* is gone, no wrapper registered for the key stays attached (none can be invoked
\* by a later data frame), and one unsubscribe frame is sent if the socket is
\* open, none otherwise.
C5_LastUnsubscribe ==
  [][ \A c \in DOMAIN calls :
        LET key == calls[c].key IN
        (unsubscribe(c) /\ subscriptions[key].present /\ ~subscriptions'[key].present) =>
          /\ AttachedFor(key)' = {}
          /\ NewlySent = IF readyState = "OPEN"
                         THEN << UnsubscribeFrame(requestId', key) >> ELSE << >> ]_vars

\* C6: two distinct listeners subscribed to one key share the key's entry and
\* the one subscribe request that entry made, and a data frame dispatched for the
\* stream invokes both.
C6_SharedEntry ==
  \A key \in Keys : \A w1, w2 \in AttachedFor(key) :
    wrappers[w1].listener # wrappers[w2].listener =>
      /\ subscriptions[key].present
      /\ subscriptions[key].listeners[wrappers[w1].listener] = w1
      /\ subscriptions[key].listeners[wrappers[w2].listener] = w2
      /\ Cardinality({ p \in DOMAIN promises : promises[p].key = key /\ promises[p].state = "pending" }) <= 1
      /\ delivered.feed # "none" => { w1, w2 } \subseteq delivered.wids

\* The entry of key is awaiting no request: its current one was acknowledged
Acknowledged(key) ==
  /\ subscriptions[key].present
  /\ promises[subscriptions[key].promise].state = "fulfilled"

\* C7 (state part): an entry whose current request is a replay is unsettled
\* exactly while that request is pending, and an entry whose current request was
\* acknowledged is settled.
C7_SettledWhenDone ==
  \A key \in Keys :
    subscriptions[key].present =>
      LET p == subscriptions[key].promise IN
      /\ promises[p].state = "fulfilled" => subscriptions[key].promiseFinished
      /\ promises[p].kind = "replay" =>
           (subscriptions[key].promiseFinished <=> promises[p].state # "pending")

\* C7 (step part): when the socket opens with resubscribe on, every entry whose
\* request was acknowledged gets one new pending request, the frames the open
\* event sends hold exactly one subscribe frame for its key, the one of that
\* request, and the entry is unsettled.
C7_OpenReplaysOnce ==
  \A key \in Keys :
    (readyState = "CONNECTING" /\ readyState' = "OPEN" /\ resubscribe /\ Acknowledged(key)) =>
      LET q == subscriptions'[key].promise IN
      /\ subscriptions'[key].present
      /\ q \notin DOMAIN promises
      /\ promises'[q].state = "pending" /\ promises'[q].key = key
      /\ pendingRequests'[promises'[q].id] = q
      /\ { i \in DOMAIN NewlySent : IsFrameFor(NewlySent[i], key, "subscribe") }
           = { i \in DOMAIN NewlySent : NewlySent[i] = SubscribeFrame(promises'[q].id, key) }
      /\ Cardinality({ i \in DOMAIN NewlySent : IsFrameFor(NewlySent[i], key, "subscribe") }) = 1
      /\ ~subscriptions'[key].promiseFinished

\* C7: with resubscribe on, a close followed by an open puts exactly one new
\* subscribe frame on the wire for an entry whose request was acknowledged, the
\* entry is unsettled until that request completes, and settled again once the
\* new request is acknowledged.
C7_ReplayAfterReconnect ==
  /\ []C7_SettledWhenDone
  /\ [][C7_OpenReplaysOnce]_vars

\* An entry was acknowledged, replayed after a reconnect, and its replay was
\* acknowledged: the entry is settled again.
C7_Witness ==
  \E key \in Keys :
    /\ subscriptions[key].present /\ subscriptions[key].promiseFinished
    /\ promises[subscriptions[key].promise].kind = "replay"
    /\ promises[subscriptions[key].promise].state = "fulfilled"
    /\ promises[subscriptions[key].ctrl].state = "fulfilled"
    /\ \E x \in settled : x.promise = subscriptions[key].promise

\* C8: _handleOpen replaces the request of an entry (replays it) only when the
\* server acknowledged a request of that entry before; an entry whose initial
\* request was pending when the socket closed is not replayed.
C8_ReplayOnlyAcknowledged ==
  [][ \A key \in Keys :
        (/\ subscriptions[key].present /\ subscriptions'[key].present
         /\ subscriptions'[key].promise # subscriptions[key].promise) =>
          \E p \in DOMAIN promises :
            promises[p].owner = subscriptions[key].ctrl /\ promises[p].state = "fulfilled" ]_vars

\* C9: the task of a socket close or error event rejects every pending request
\* with the connection-closed error, leaves the pending index empty, and leaves
\* no subscribe() call waiting.
C9_CloseRejectsAll ==
  [][ (readyState # "CLOSED" /\ readyState' = "CLOSED") =>
        /\ pendingRequests' = << >>
        /\ \A p \in DOMAIN promises :
             promises[p].state = "pending" =>
               /\ promises'[p].state = "rejected"
               /\ [ promise |-> p, state |-> "rejected", by |-> 0, reason |-> "closed" ] \in settled'
        /\ \A p \in DOMAIN promises' : promises'[p].state # "pending"
        /\ \A c \in DOMAIN calls' : calls'[c].status # "waiting" ]_vars

\* Two requests were pending when the socket closed; both were rejected with the
\* connection-closed error and a call that awaited one of them was rejected.
C9_Witness ==
  /\ readyState = "CLOSED"
  /\ Cardinality({ x \in settled : x.reason = "closed" }) >= 2
  /\ \E c \in DOMAIN calls :
       /\ calls[c].status = "rejected"
       /\ \E x \in settled : x.promise = calls[c].promise /\ x.reason = "closed"

\* C10: a subscribe() call that has resolved awaited a request the server
\* acknowledged, and a call whose request was rejected has rejected.
C10_ResolvesOnlyAfterAck ==
  \A c \in DOMAIN calls :
    /\ calls[c].status = "resolved" => promises[calls[c].promise].state = "fulfilled"
    /\ promises[calls[c].promise].state = "rejected" => calls[c].status = "rejected"

\* What the manager holds: everything but the logs of the last task
managerVars ==
  << readyState, resubscribe, requestId, pendingRequests, promises, subscriptions,
     aborted, wrappers, attached, openListeners, sent, calls >>

\* C11 (state part): the id of a request that was resolved, rejected or cleared
\* is not in the pending index, so the test of a timeout callback that runs late
\* (this._pendingRequests.has(requestId)) fails and the callback does nothing.
C11_SettledNotIndexed ==
  \A p \in DOMAIN promises :
    promises[p].state # "pending" => promises[p].id \notin DOMAIN pendingRequests

\* C11: a subscribe request that no response, error or close settled before its
\* timeout callback ran is rejected by it with the timeout error and removed from
\* the pending index (the other requests stay as they were); a callback that
\* runs after the request was resolved, rejected or cleared changes nothing.
C11_Timeout ==
  /\ []C11_SettledNotIndexed
  /\ [][ \A x \in settled' :
           x.reason = "timeout" =>
             /\ promises[x.promise].state = "pending"
             /\ promises'[x.promise].state = "rejected"
             /\ settled' = { x }
             /\ pendingRequests' = [ i \in DOMAIN pendingRequests \ { promises[x.promise].id }
                                       |-> pendingRequests[i] ]
             /\ \A q \in DOMAIN promises : q # x.promise => promises'[q] = promises[q] ]_vars

\* A request timed out while another stayed pending: the call that awaited it was
\* rejected and its id left the index.
C11_Witness ==
  \E x \in settled :
    /\ x.reason = "timeout"
    /\ promises[x.promise].id \notin DOMAIN pendingRequests
    /\ DOMAIN pendingRequests # {}
    /\ \E c \in DOMAIN calls : calls[c].promise = x.promise /\ calls[c].status = "rejected"

\* How often the frame of the request with correlation id is in seq
TimesIn(seq, id) ==
  Cardinality({ i \in DOMAIN seq : seq[i].request_id = id /\ seq[i].method = "subscribe" })

\* C12 (state part): the frame of every subscribe request either waits in one
\* open listener or was sent once, and no open listener is left while the socket
\* is open.
C12_SentOrWaiting ==
  /\ \A p \in DOMAIN promises :
       TimesIn(sent, promises[p].id) + TimesIn(openListeners, promises[p].id) = 1
  /\ readyState = "OPEN" => openListeners = << >>

\* C12: the frame of a subscribe request issued while the socket is not open is
\* not sent by any step before the open event; the open event sends it, once, and
\* removes the open listener that held it.
C12_DeferredSend ==
  /\ []C12_SentOrWaiting
  /\ [][ \A i \in DOMAIN openListeners :
           IF readyState' = "OPEN"
           THEN /\ Cardinality({ j \in DOMAIN NewlySent : NewlySent[j] = openListeners[i] }) = 1
                /\ openListeners' = << >>
           ELSE /\ i \in DOMAIN openListeners' /\ openListeners'[i] = openListeners[i]
                /\ sent' = sent ]_vars

\* A request issued while the socket was closed had its frame sent by the next
\* open event, after the frame of a replay that took a later id.
C12_Witness ==
  /\ readyState = "OPEN"
  /\ \E i, j \in DOMAIN sent :
       /\ i < j /\ sent[i].request_id > sent[j].request_id
       /\ sent[j].method = "subscribe"

\* C13: a frame dispatched as subscription response or as error whose request_id
\* is absent or is not in the pending index leaves the pending index, the
\* subscription index, the promises, the waiting calls, the failure signals and
\* the attached listeners as they were.
C13_UncorrelatedIgnored ==
  [][ (/\ inbound'.event \in { "subscriptionResponse", "error" }
       /\ \/ inbound'.frame.request_id = 0
          \/ inbound'.frame.request_id \notin DOMAIN pendingRequests) =>
        /\ UNCHANGED << pendingRequests, subscriptions, promises, calls, aborted, wrappers, attached >>
        /\ settled' = {} ]_vars

\* The acknowledgement of a request arrives after the request timed out: nothing
\* is settled.
C13_Witness ==
  /\ inbound.event = "subscriptionResponse"
  /\ inbound.frame.request_id # 0
  /\ inbound.frame.request_id \notin DOMAIN pendingRequests
  /\ \E p \in DOMAIN promises :
       promises[p].id = inbound.frame.request_id /\ promises[p].state = "rejected"
  /\ settled = {}

\* The replay requests made for the entry (SubscriptionState object) ctrl that
\* were rejected
RejectedReplays(ctrl) ==
  { p \in DOMAIN promises :
      promises[p].kind = "replay" /\ promises[p].owner = ctrl /\ promises[p].state = "rejected" }

\* C14: the failureSignal of a handle is aborted exactly when a replayed
\* subscribe request of the handle's entry was rejected (by an error frame, a
\* timeout or a close): every rejection of a replay aborts it, and nothing else
\* does, an acknowledged replay in particular.
C14_FailureSignal ==
  /\ \A c \in DOMAIN calls :
       calls[c].status = "resolved" =>
         (calls[c].ctrl \in aborted <=> RejectedReplays(calls[c].ctrl) # {})
  /\ \A x \in settled :
       promises[x.promise].kind = "replay" =>
         (promises[x.promise].owner \in aborted <=> RejectedReplays(promises[x.promise].owner) # {})

\* The server answers the replay of an entry with an error frame: the signal of
\* a handle of the entry is aborted.
C14_Witness ==
  \E x \in settled :
    /\ x.reason = "error"
    /\ promises[x.promise].kind = "replay"
    /\ \E c \in DOMAIN calls :
         /\ calls[c].status = "resolved" /\ calls[c].ctrl = promises[x.promise].owner
         /\ calls[c].ctrl \in aborted

\* C15: a socket close or error with resubscribe off detaches every listener
\* wrapper registered before it (none can be invoked by a later data frame),
\* leaves the subscription index empty and sends no frame.
C15_CloseWithoutResubscribe ==
  [][ (readyState # "CLOSED" /\ readyState' = "CLOSED" /\ ~resubscribe) =>
        /\ attached' = {}
        /\ \A key \in Keys : ~subscriptions'[key].present
        /\ sent' = sent ]_vars

\* The frame of the last task parsed as JSON
Parsed == inbound.frame.json \notin { "none", "invalid" }

\* C16 as stated: every frame that parses as JSON is dispatched as one of the
\* four categories, none is left undispatched.
C16_EveryParsedFrameDispatched ==
  Parsed => inbound.event \in { "pong", "error", "subscriptionResponse", "data" }

\* C16 amended: a frame that parses as JSON is dispatched as the category of the
\* first test it passes, in the order pong, error, subscription response (and
\* not data), data, and as nothing when it passes none of them (null, a scalar,
\* an object without the tested fields); never under two categories.
C16_FirstMatchOrNothing ==
  Parsed =>
    LET f == inbound.frame
        e == inbound.event
    IN /\ e = "pong" <=> IsPong(f)
       /\ e = "error" <=> (~IsPong(f) /\ isErrorMessage(f))
       /\ e = "subscriptionResponse" <=>
            (~IsPong(f) /\ ~isErrorMessage(f) /\ isSubscriptionResponse(f) /\ ~isDataMessage(f))
       /\ e = "data" <=> (~IsPong(f) /\ ~isErrorMessage(f) /\ isDataMessage(f))
       /\ e = "none" <=>
            (~IsPong(f) /\ ~isErrorMessage(f) /\ ~isSubscriptionResponse(f) /\ ~isDataMessage(f))

\* An object that passes none of the four tests was received and nothing was
\* dispatched for it.
C16_Witness ==
  /\ inbound.frame.json = "object"
  /\ inbound.event = "none"
  /\ delivered = NoDelivery /\ settled = {}

\* The frame of the last task is an acknowledgement that echoes the request:
\* request_id, method, stream name and the feed list
EchoingAck ==
  /\ inbound.frame.json = "object"
  /\ inbound.frame.request_id # 0
  /\ inbound.frame.method = "subscribe"
  /\ inbound.frame.stream = <<"v1", "ticker">>
  /\ inbound.frame.feed = "array"
  /\ inbound.frame.code = "absent" /\ inbound.frame.type = "absent"

\* C17: an acknowledgement that echoes request_id, method, stream name and feed
\* list is dispatched as subscription response, invokes no data listener, and
\* leaves the request of its id resolved.
C17_EchoingAckResolves ==
  EchoingAck =>
    /\ inbound.event = "subscriptionResponse"
    /\ delivered = NoDelivery
    /\ \A p \in DOMAIN promises :
         promises[p].id = inbound.frame.request_id => promises[p].state # "pending"

\* C18: a frame that is not valid JSON dispatches no event, settles no promise,
\* invokes no listener, and leaves the socket, the pending index, the
\* subscription index and everything else the manager holds as it was.
C18_InvalidJsonIgnored ==
  [][ inbound'.frame.json = "invalid" =>
        /\ inbound'.event = "none"
        /\ settled' = {}
        /\ delivered' = NoDelivery
        /\ UNCHANGED managerVars ]_vars

\* A corrupt frame arrived on an open socket while a request was pending and a
\* listener was attached.
C18_Witness ==
  /\ inbound.frame.json = "invalid"
  /\ readyState = "OPEN"
  /\ DOMAIN pendingRequests # {}
  /\ attached # {}

\* C19: a data frame whose wire stream is v1.S invokes every attached listener
\* that was subscribed under the unprefixed name S, and what the listeners get is
\* the frame's feed field.
C19_DataDelivery ==
  inbound.event = "data" =>
    /\ delivered.feed = inbound.frame.feed
    /\ \A w \in attached :
         (/\ wrappers[w].key[1] = StripPrefix(wrappers[w].key[1])
          /\ inbound.frame.stream = <<"v1">> \o wrappers[w].key[1]) =>
           w \in delivered.wids

\* A data frame for v1.ticker was delivered to a listener subscribed under
\* "ticker", with the frame's payload.
C19_Witness ==
  /\ inbound.event = "data"
  /\ inbound.frame.stream = <<"v1", "ticker">>
  /\ inbound.frame.feed = "payload"
  /\ delivered.feed = "payload"
  /\ \E w \in delivered.wids : wrappers[w].key[1] = <<"ticker">>

\* C20: ready() resolves at once when the socket is open, otherwise it resolves
\* on the open event, rejects on the error event and rejects with the
\* cancellation error when its signal fires first; however a call settles, none
\* of the open, error or abort listeners it registered is still attached.
C20_NoListenerLeft ==
  \A i \in DOMAIN readyCalls :
    readyCalls[i].status # "pending" =>
      readyCalls[i].listeners \cap readyCalls[i].registered = {}

C20_Settles ==
  /\ Len(readyCalls') > Len(readyCalls) =>
       LET call == readyCalls'[Len(readyCalls')] IN
         /\ call.signal \in signalAborted => call.status = "aborted"
         /\ call.signal \notin signalAborted /\ readyState = "OPEN" =>
              call.status = "resolved"
         /\ call.signal \notin signalAborted /\ readyState # "OPEN" =>
              call.status = "pending"
  /\ \A i \in DOMAIN readyCalls :
       readyCalls[i].status = "pending" =>
         /\ readyState # "OPEN" /\ readyState' = "OPEN" =>
              readyCalls'[i].status = "resolved"
         /\ readyState = "CONNECTING" /\ readyState' = "CLOSED" =>
              readyCalls'[i].status = "failed"
         /\ readyCalls[i].signal \in signalAborted' \ signalAborted =>
              readyCalls'[i].status = "aborted"
  /\ \A i \in DOMAIN readyCalls :
       readyCalls'[i].status # readyCalls[i].status =>
         readyCalls[i].status = "pending"

C21_CloseCall ==
  Len(closeCalls') > Len(closeCalls) =>
    LET call == closeCalls'[Len(closeCalls')] IN
      /\ call.signal \in signalAborted =>
           call.status = "aborted" /\ call.listeners = {}
      /\ call.signal \notin signalAborted /\ readyState = "CLOSED" =>
           call.status = "resolved"
      /\ call.signal \notin signalAborted /\ readyState # "CLOSED" =>
           /\ call.status = "pending"
           /\ keepAlive'.timers = 0
           /\ readyState' = "CLOSING"

C21_CloseSettles ==
  /\ \A i \in DOMAIN closeCalls :
       closeCalls[i].status = "pending" =>
         /\ readyState # "CLOSED" /\ readyState' = "CLOSED" =>
              closeCalls'[i].status = "resolved"
         /\ closeCalls[i].signal \in signalAborted' \ signalAborted =>
              /\ closeCalls'[i].status = "aborted"
              /\ "close" \notin closeCalls'[i].listeners
  /\ \A i \in DOMAIN closeCalls :
       closeCalls'[i].status # closeCalls[i].status =>
         closeCalls[i].status = "pending"

C22_AtMostOneTimer == keepAlive.timers <= 1

C22_TimerFollowsSocket ==
  /\ keepAlive'.timers > keepAlive.timers =>
       readyState # "OPEN" /\ readyState' = "OPEN"
  /\ readyState # "CLOSED" /\ readyState' = "CLOSED" => keepAlive'.timers = 0
  /\ (\E i \in DOMAIN NewlySent : NewlySent[i].method = "ping") => readyState = "OPEN"

\* C22 (as stated): at most one keepalive timer exists, no timer is active once
\* a close or error event has been handled or close() has been called (until a
\* later open event), and a ping is sent only while the socket is open.
C22_NoTimerAfterAnyClose ==
  /\ []C22_AtMostOneTimer
  /\ [][/\ C22_TimerFollowsSocket
        /\ Len(closeCalls') > Len(closeCalls) => keepAlive'.timers = 0]_vars

\* C22 (amended): as stated, for the close() calls whose signal had not fired
\* before the call; a close() called with an aborted signal is rejected and
\* leaves the timer running.
C22_NoTimerAfterClose ==
  /\ []C22_AtMostOneTimer
  /\ [][/\ C22_TimerFollowsSocket
        /\ (/\ Len(closeCalls') > Len(closeCalls)
            /\ closeCalls'[Len(closeCalls')].signal \notin signalAborted)
             => keepAlive'.timers = 0]_vars

\* A ping was sent on the open socket, then close() stopped the timer: the
\* socket is closing, the call waits for the close event and no timer runs.
C22_Witness ==
  /\ readyState = "CLOSING"
  /\ keepAlive.timers = 0
  /\ \E i \in DOMAIN sent : sent[i].method = "ping"
  /\ \E i \in DOMAIN closeCalls : closeCalls[i].status = "pending"
  /\ reconnects > 0

\* The request() call a step starts, if it starts one
StartsRequest == Len(requests') = Len(requests) + 1

NewRequest == requests'[Len(requests')]

\* C23: an authenticated call made while the held cookie's expiry is more than
\* the 5 s buffer away sends no login, so repeated calls share the login of the
\* first; a call made without a cookie, or once the time has crossed into the
\* buffer, sends exactly one login, and nothing else ever sends one.
C23_LoginOnlyWhenStale ==
  /\ (StartsRequest /\ NewRequest.auth /\ http.apiKey) =>
       /\ (cookie.held /\ ~cookie.nan /\ cookie.expires - now > _cookieRefreshBuffer)
            => ~NewRequest.loginSent
       /\ (~cookie.held \/ (~cookie.nan /\ cookie.expires - now <= _cookieRefreshBuffer))
            => NewRequest.loginSent
  /\ \A r \in DOMAIN requests : requests'[r].loginSent = requests[r].loginSent

C23_RefreshIdempotent == [][C23_LoginOnlyWhenStale]_vars

\* The first call logged in, the second was made with the cookie fresh and
\* sent only its primary request, the third was made inside the buffer and
\* logged in again.
C23_Witness ==
  /\ Len(requests) = 3
  /\ \A r \in 1 .. 3 : requests[r].auth
  /\ requests[1].loginSent
  /\ ~requests[2].loginSent /\ requests[2].primarySent
  /\ requests[3].loginSent
  /\ cookie.held /\ ~cookie.nan /\ cookie.expires - now = _cookieRefreshBuffer

\* The login answers that give no cookie: network error, non-success status,
\* no Set-Cookie header, no gravity cookie in it
FailedLogin(resp) ==
  resp.kind # "ok" \/ ~resp.setCookie \/ resp.gravity = "none"

\* C24: when authentication is required and the cookie refresh fails (login
\* network error, non-success login status, missing Set-Cookie header or
\* missing named cookie), request() rejects with a transport error and the
\* primary request is never sent.
C24_FailedLoginRejects ==
  \A r \in DOMAIN requests : \A resp \in LoginResponses(now) :
    (FailedLogin(resp) /\ LoginResponse(r, resp)) =>
      /\ requests'[r].outcome = "rejected"
      /\ requests'[r].error.class \in TransportErrors
      /\ ~requests'[r].primarySent

C24_NoPrimaryAfterFailedRefresh ==
  \A r \in DOMAIN requests :
    (requests[r].loginSent /\ requests[r].outcome = "rejected" /\ ~requests[r].error.response
       /\ requests[r].error.cause = "none")
      => ~requests[r].primarySent

C24_RefreshFailure == []C24_NoPrimaryAfterFailedRefresh /\ [][C24_FailedLoginRejects]_vars

\* A request whose login failed is rejected and sent no primary request, while
\* another one logged in and sent its primary request.
C24_Witness ==
  \E r, q \in DOMAIN requests :
    /\ requests[r].loginSent /\ requests[r].outcome = "rejected"
    /\ requests[r].error = HttpRequestError(FALSE, "Failed to obtain authentication cookie", "none")
    /\ ~requests[r].primarySent
    /\ requests[q].loginSent /\ requests[q].primarySent

\* C25: an authenticated request() on a transport without an API key rejects
\* without any network call: neither the login nor the primary request is
\* sent, and the held cookie is unchanged.
C25_NoKeyNoCall ==
  (StartsRequest /\ NewRequest.auth /\ ~http.apiKey) =>
    /\ NewRequest.outcome = "rejected"
    /\ ~NewRequest.loginSent /\ ~NewRequest.primarySent
    /\ cookie' = cookie

C25_NoKeyNeverSends ==
  \A r \in DOMAIN requests :
    (requests[r].auth /\ ~http.apiKey) =>
      /\ requests[r].outcome = "rejected"
      /\ ~requests[r].loginSent /\ ~requests[r].primarySent
      /\ ~cookie.held

C25_NoApiKey == []C25_NoKeyNeverSends /\ [][C25_NoKeyNoCall]_vars

\* On a transport without a key an authenticated request was rejected and an
\* unauthenticated one sent its primary request.
C25_Witness ==
  /\ http.made /\ ~http.apiKey
  /\ \E r, q \in DOMAIN requests :
       /\ requests[r].auth /\ requests[r].outcome = "rejected"
       /\ ~requests[q].auth /\ requests[q].primarySent

\* C26: the error with which request() rejects when authentication is required
\* but no API key is configured belongs to a class of its own, distinct from
\* the class of transport and HTTP failures.
C26_DistinctErrorClass ==
  \A r \in DOMAIN requests :
    (requests[r].auth /\ ~http.apiKey /\ requests[r].outcome = "rejected") =>
      requests[r].error.class \notin TransportErrors

\* C27: the held cookie changes only by a successful refresh, which replaces
\* value and expiry together; a refresh that fails leaves the held cookie, value
\* and expiry, exactly as it was.
C27_OnlyRefreshStores ==
  /\ cookie' # cookie =>
       \E r \in DOMAIN requests : \E resp \in LoginResponses(now) :
         /\ ~FailedLogin(resp)
         /\ LoginResponse(r, resp)
         /\ cookie' = _getCookie(resp, now)
  /\ \A r \in DOMAIN requests : \A resp \in LoginResponses(now) :
       (FailedLogin(resp) /\ LoginResponse(r, resp)) => cookie' = cookie
  /\ \A r \in DOMAIN requests : \A resp \in LoginResponses(now) :
       (~FailedLogin(resp) /\ LoginResponse(r, resp)) => cookie' = _getCookie(resp, now)

C27_CookieFrame == [][C27_OnlyRefreshStores]_vars

\* Two refreshes stored the cookies g1 and g2 one after the other, the later
\* one with another expiry, and a third refresh failed: the cookie is still
\* held.
C27_Witness ==
  \E a, b, c \in DOMAIN requests :
    /\ requests[a].cookieHeader = "g1"
    /\ requests[b].cookieHeader = "g2"
    /\ requests[c].error = HttpRequestError(FALSE, "Failed to obtain authentication cookie", "none")
    /\ cookie.held /\ now = MaxNow

\* C28: every rejection of request() is an HttpRequestError: a non-success
\* status, or a success status with a content type that is not JSON, rejects
\* with the response and the body as far as it could be read; a network failure
\* of fetch rejects with an HttpRequestError that wraps the cause; a body is
\* returned only for a success status with JSON content type.
C28_RejectionsAreHttpRequestErrors ==
  \A r \in DOMAIN requests :
    /\ requests[r].outcome = "rejected" => requests[r].error.class = "HttpRequestError"
    /\ requests[r].outcome = "returned" => requests[r].body = "json"
    /\ requests[r].outcome # "returned" => requests[r].body = "none"

C28_PrimaryOutcome ==
  \A r \in DOMAIN requests : \A resp \in PrimaryResponses :
    PrimaryResponse(r, resp) =>
      /\ (resp.kind = "response" /\ (~resp.ok \/ ~resp.json)) =>
           /\ requests'[r].outcome = "rejected"
           /\ requests'[r].error.response
           /\ requests'[r].error.body = IF resp.readable THEN "text" ELSE "none"
      /\ resp.kind = "networkError" =>
           /\ requests'[r].outcome = "rejected"
           /\ requests'[r].error.cause = "TypeError"
      /\ requests'[r].outcome = "returned" =>
           resp.kind = "response" /\ resp.ok /\ resp.json

C28_Rejections == []C28_RejectionsAreHttpRequestErrors /\ [][C28_PrimaryOutcome]_vars

\* One request was rejected with the response and its body attached, another
\* with the network failure as its cause.
C28_Witness ==
  \E r, q \in DOMAIN requests :
    /\ requests[r].outcome = "rejected"
    /\ requests[r].error.response /\ requests[r].error.body = "text"
    /\ requests[q].outcome = "rejected"
    /\ requests[q].error = HttpRequestError(FALSE, "none", "TypeError")

\* The signals of request r besides its timeout: fetchOptions.signal and the
\* caller's
SignalsOf(r) == { http.signal, requests[r].signal } \ { NoSignal }

\* C29: the primary request is aborted, and request() rejects with an
\* HttpRequestError, as soon as one of the combined signals has fired: the
\* transport timeout, the signal of fetchOptions or the caller's signal, also
\* when the caller's signal is already aborted when request() is called.
C29_NoPrimaryUnderFiredSignal ==
  \A r \in DOMAIN requests :
    requests[r].phase = "primary" => SignalsOf(r) \cap signalAborted = {}

C29_AbortRejects ==
  /\ \A r \in DOMAIN requests :
       (requests[r].phase = "primary"
          /\ SignalsOf(r) \cap (signalAborted' \ signalAborted) # {}) =>
         /\ requests'[r].outcome = "rejected"
         /\ requests'[r].error = HttpRequestError(FALSE, "none", "AbortError")
  /\ \A r \in DOMAIN requests :
       TimeoutFires(r) =>
         /\ requests'[r].outcome = "rejected"
         /\ requests'[r].error = HttpRequestError(FALSE, "none", "TimeoutError")
  /\ (StartsRequest /\ NewRequest.signal \in signalAborted /\ NewRequest.phase # "login") =>
       /\ NewRequest.outcome = "rejected"
       /\ NewRequest.error.class = "HttpRequestError"
       /\ ~NewRequest.primarySent

C29_Abort == []C29_NoPrimaryUnderFiredSignal /\ [][C29_AbortRejects]_vars

\* A request called with an aborted signal was rejected unsent, and a request
\* without a signal of its own was aborted in flight by the signal of
\* fetchOptions.
C29_Witness ==
  \E r, q \in DOMAIN requests :
    /\ requests[r].signal = "S1" /\ ~requests[r].primarySent /\ ~requests[r].loginSent
    /\ requests[r].error = HttpRequestError(FALSE, "none", "AbortError")
    /\ requests[q].signal = NoSignal /\ requests[q].primarySent
    /\ requests[q].error = HttpRequestError(FALSE, "none", "AbortError")
    /\ http.timeout

\* C30: a data frame for stream S invokes every listener registered under any
\* key whose stream is S, whatever feed string the key carries; a listener
\* subscribed to (S, F1) is also invoked by the data the server sends for
\* (S, F2). (Every data frame of Spec is for the wire stream v1.ticker.)
C30_AllFeedsOfStreamInvoked ==
  delivered.feed # "none" =>
    \A w \in attached :
      wrappers[w].key[1] = <<"ticker">> => w \in delivered.wids

\* One data frame was delivered to listeners subscribed under two different
\* feeds of the stream.
C30_Witness ==
  /\ delivered.feed = "payload"
  /\ \E v, w \in delivered.wids :
       /\ wrappers[v].key[1] = wrappers[w].key[1]
       /\ wrappers[v].key[2] = "BTC@500"
       /\ wrappers[w].key[2] = "ETH@500"

\* C31: a request() call without requiresAuth never triggers a login, never
\* changes the held cookie and never carries a Cookie header, even when a valid
\* cookie is held; a Cookie header is attached only when requiresAuth is set
\* and a cookie is held.
C31_UnauthenticatedIsBare ==
  \A r \in DOMAIN requests :
    /\ ~requests[r].auth => ~requests[r].loginSent /\ requests[r].cookieHeader = "none"
    /\ requests[r].cookieHeader # "none" => requests[r].auth /\ cookie.held

C31_UnauthenticatedKeepsCookie ==
  /\ (StartsRequest /\ ~NewRequest.auth) => cookie' = cookie
  /\ cookie' # cookie =>
       \E r \in DOMAIN requests :
         requests[r].auth /\ requests[r].phase = "login" /\ requests'[r].phase # "login"

C31_NoAuthNoCookie == []C31_UnauthenticatedIsBare /\ [][C31_UnauthenticatedKeepsCookie]_vars

\* With a cookie held and still fresh (the second call sent it without a
\* login), a call without requiresAuth sent its primary request with no Cookie
\* header.
C31_Witness ==
  /\ Len(requests) = 3
  /\ requests[1].auth /\ requests[1].loginSent
  /\ requests[2].auth /\ ~requests[2].loginSent /\ requests[2].cookieHeader # "none"
  /\ ~requests[3].auth /\ requests[3].primarySent /\ requests[3].cookieHeader = "none"
  /\ cookie.held

\* The subscribe() call a step makes, if it makes one
StartsCall == Len(calls') = Len(calls) + 1

NewCall == calls'[Len(calls')]

\* C32: after a subscribe() call for a key has been rejected (error frame,
\* timeout or socket close on the initial request), a later subscribe() call for
\* the same key sends a fresh subscribe frame with a new correlation id instead
\* of rejecting again from the stored failed request.
C32_FreshRequestAfterRejection ==
  [][(/\ StartsCall
      /\ subscriptions[NewCall.key].present
      /\ promises[subscriptions[NewCall.key].promise].kind = "initial"
      /\ promises[subscriptions[NewCall.key].promise].state = "rejected")
       => /\ requestId' = NextRequestId(requestId)
          /\ NewCall.status = "waiting"]_vars

\* C33: an entry's settled flag is true only when that entry's own most recent
\* subscribe request has settled; the settlement of a request that belonged to
\* an earlier, already removed entry for the same key never marks the new entry
\* settled while the new entry's request is still pending.
C33_FinishedMeansOwnRequestSettled ==
  \A k \in Keys :
    (subscriptions[k].present /\ subscriptions[k].promiseFinished) =>
      promises[subscriptions[k].promise].state # "pending"

\* C34: whenever a subscribe frame is passed to socket.send, a PendingRequest with
\* the frame's correlation id is in the pending index: a deferred send whose
\* request was rejected by its timeout or by a close or error event before the
\* socket opened is not sent by a later open event.
C34_SentFramesArePending ==
  [][ \A j \in DOMAIN NewlySent :
        NewlySent[j].method = "subscribe" =>
          NewlySent[j].request_id \in DOMAIN pendingRequests' ]_vars

\* C35: calling a handle's unsubscribe() after its listener has already been
\* removed has no effect: it removes no entry and no listener of an entry,
\* detaches no listener and sends no frame, also when the same key has been
\* subscribed again in the meantime.
C35_RepeatedUnsubscribeIsNoOp ==
  [][ \A c \in DOMAIN calls :
        (calls[c].unsub \notin attached /\ unsubscribe(c)) =>
          /\ subscriptions' = subscriptions
          /\ attached' = attached
          /\ sent' = sent ]_vars

\* C36: a handle returned by subscribe() does not carry a failureSignal that is
\* already aborted at the moment the call resolves: a call that joins an entry
\* whose last resubscription was rejected does not resolve with a dead
\* subscription.
C36_ReturnedHandleIsLive ==
  [][ \A c \in DOMAIN calls' :
        ( /\ calls'[c].status = "resolved"
          /\ (c \in DOMAIN calls => calls[c].status # "resolved") ) =>
          calls'[c].ctrl \notin aborted' ]_vars

\* C37: at most one login round-trip is in flight at any time: an authenticated
\* request() that starts while a refresh is in progress waits for that refresh
\* and does not issue a login of its own.
C37_OneLoginInFlight ==
  Cardinality({ r \in DOMAIN requests : requests[r].phase = "login" }) <= 1

\* The transport's socket with its events scheduled: the same steps as
\* ReadySpec plus close() without a signal. A connection attempt ends (the
\* open or the error event fires) and a closure that was started completes (the
\* close event fires). Nothing obliges the caller to abort a signal, and the
\* socket the constructor makes (new WebSocket(url)) is not obliged to connect
\* again once it is closed.
ReadyLiveNext ==
  \/ ReadyNext
  \/ close(NoSignal)

ReadyLiveSpec ==
  /\ Init
  /\ [][ReadyLiveNext]_vars
  /\ WF_vars(SocketOpen \/ SocketError)
  /\ WF_vars(SocketClose)

\* C38: every ready() call eventually resolves or rejects, no cancellation
\* signal being needed, in every socket state it can be called in, the closing
\* and the closed state included.
C38_ReadyTerminates ==
  \A i \in 1 .. MaxReadyCalls :
    (i \in DOMAIN readyCalls) ~>
      (i \in DOMAIN readyCalls /\ readyCalls[i].status # "pending")

\* C39 (timeout part): while a request is in its login phase on a transport
\* with a timeout, the timeout of the request is running.
C39_LoginUnderTimeout ==
  \A r \in DOMAIN requests :
    (requests[r].phase = "login" /\ http.timeout) => requests[r].timer

\* C39 (signal part): a request in its login phase is rejected by the step in
\* which the caller's signal or the signal of fetchOptions fires, and no request
\* is in its login phase under a signal that has fired.
C39_AbortRejectsLogin ==
  \A r \in DOMAIN requests :
    requests[r].phase = "login" =>
      /\ SignalsOf(r) \cap signalAborted = {}
      /\ SignalsOf(r) \cap (signalAborted' \ signalAborted) # {} =>
           requests'[r].outcome = "rejected"

\* C39: when the caller's abort signal or the transport timeout fires while an
\* authenticated request() is in its cookie-refresh phase, the call rejects:
\* the login round-trip is under the same cancellation and timeout as the
\* primary request.
C39_LoginCancellable == []C39_LoginUnderTimeout /\ [][C39_AbortRejectsLogin]_vars

\* The manager and the router with callers that pass stream names with and
\* without the "v1." prefix, for a run of at most StreamMaxCalls subscribe()
\* calls on a socket that stays open.
StreamNext ==
  \/ \E key \in AllKeys, listener \in Listeners :
       Len(calls) < StreamMaxCalls /\ subscribe(key, listener)
  \/ SocketOpen
  \/ \E msg \in Frames : Receive(msg)

StreamSpec == Init /\ [][StreamNext]_vars

\* C40 (wire part): normalization is idempotent, and the frame of every subscribe
\* request carries the caller's stream name unchanged when it starts with "v1."
\* and with "v1." prepended otherwise.
C40_WireNames ==
  /\ \A st \in Streams \cup PrefixedStreams :
       _normalizeStreamName(_normalizeStreamName(st)) = _normalizeStreamName(st)
  /\ \A p \in DOMAIN promises :
       \A f \in Range(sent) \cup Range(openListeners) :
         (f.method = "subscribe" /\ f.request_id = promises[p].id) =>
           f.stream = IF promises[p].key[1] \in PrefixedStreams
                      THEN promises[p].key[1]
                      ELSE <<"v1">> \o promises[p].key[1]

\* C40 (delivery part): a data frame for a wire stream invokes every attached
\* listener whose stream name normalizes to that wire stream, whether the
\* listener was subscribed as S or as v1.S.
C40_AllSpellingsInvoked ==
  inbound.event = "data" =>
    \A w \in attached :
      _normalizeStreamName(wrappers[w].key[1]) = inbound.frame.stream =>
        w \in delivered.wids

\* C40: stream-name normalization is idempotent, and a listener subscribed with
\* an already prefixed name v1.S is invoked by the data frames for wire stream
\* v1.S just as a listener subscribed with S is.
C40_PrefixedStreamNames == C40_WireNames /\ C40_AllSpellingsInvoked

====
